---- MODULE Spec2Model ----
(***************************************************************************)
(* A model of the OPB decoder of src/src/lib.rs: the varint decoder        *)
(* read_u7, the encoded-size function size_u7 and the header parser        *)
(* parse_opb, together with the nom combinators they call (u8, be_u32,     *)
(* tag).  Bytes are integers 0..255 and buffers are sequences of bytes.    *)
(*                                                                         *)
(* Every local of read_u7 is a Rust u8 (b0 comes from nom's u8 parser and  *)
(* b1, b2, b3 are assigned from it), so the expression of line 129 is u8   *)
(* arithmetic: the shifts by 14 and by 21 exceed the width of the type.    *)
(* What that does depends on the build: with overflow checks (the debug    *)
(* profile) the shift panics, without them (the release profile) the       *)
(* shift amount is taken modulo 8.  The model keeps the build as the       *)
(* variable overflow_checks, chosen in Init, and both outcomes are         *)
(* explored.                                                               *)
(***************************************************************************)
EXTENDS Integers, Sequences, FiniteSets, TLC

VARIABLES
    overflow_checks,  \* the build: TRUE with overflow checks, FALSE without
    op,               \* the function that was called, "idle" before the call
    input,            \* the byte buffer handed to the call
    val,              \* the u32 argument (size_u7, and the value encoded)
    out               \* what the call returned

vars == <<overflow_checks, op, input, val, out>>

(***************************************************************************)
(* Bounds of the model.                                                    *)
(***************************************************************************)
\* longest buffer handed to read_u7 (the decoder reads at most 4 bytes)
MaxVarintLen == 5
\* most bytes that follow the 20-byte header in a buffer handed to parse_opb
MaxTrail == 1

(***************************************************************************)
(* Constants of the program.                                               *)
(***************************************************************************)
FILE_ID_SIZE == 7
\* b'O', b'P', b'B', b'i', b'n', b'1', 0
FILE_ID == <<79, 80, 66, 105, 110, 49, 0>>
\* the literal "OPBin1\x00" handed to tag
TAG_LITERAL == <<79, 80, 66, 105, 110, 49, 0>>

(***************************************************************************)
(* u8 arithmetic.                                                          *)
(***************************************************************************)
RECURSIVE Pow2(_)
Pow2(n) == IF n = 0 THEN 1 ELSE 2 * Pow2(n - 1)

\* a | b on unsigned integers
RECURSIVE BitOr(_, _)
BitOr(a, b) ==
    IF a = 0 THEN b
    ELSE IF b = 0 THEN a
    ELSE (IF a % 2 = 1 \/ b % 2 = 1 THEN 1 ELSE 0)
         + 2 * BitOr(a \div 2, b \div 2)

\* b &= 0b01111111
Mask7(b) == b % 128

\* the shift amount n is not below the 8 bits of a u8: the checked build
\* panics with "attempt to shift left with overflow"
ShlOverflows(n) == n >= 8

\* b << n on a u8 without overflow checks: the amount is masked to the
\* width of the type and the bits shifted out of the byte are lost
WrappingShl(b, n) == (b * Pow2(n % 8)) % 256

(***************************************************************************)
(* Results: nom's IResult.  res is "Ok", "Error" (Err::Error), "Failure"   *)
(* (Err::Failure) or "Panic".  read counts the bytes taken from the front  *)
(* of the buffer before the call ended.                                    *)
(***************************************************************************)
NoErr == [variant |-> "None"]
\* OpbError::Read(input, kind), built by ParseError::from_error_kind
ReadErr(i, kind) == [variant |-> "Read", input |-> i, kind |-> kind]
\* OpbError::Format(byte)
FormatErr(b) == [variant |-> "Format", byte |-> b]
\* OpbError::NotAnOpbFile(id)
NotAnOpbFileErr(id) == [variant |-> "NotAnOpbFile", id |-> id]

Ok(rest, value, n) ==
    [res |-> "Ok", rest |-> rest, value |-> value, err |-> NoErr, read |-> n]
Error(e, n) ==
    [res |-> "Error", rest |-> <<>>, value |-> 0, err |-> e, read |-> n]
Failure(e, n) ==
    [res |-> "Failure", rest |-> <<>>, value |-> 0, err |-> e, read |-> n]
Panic(n) ==
    [res |-> "Panic", rest |-> <<>>, value |-> 0, err |-> NoErr, read |-> n]

Drop(s, n) == SubSeq(s, n + 1, Len(s))
Take(s, n) == SubSeq(s, 1, IF n <= Len(s) THEN n ELSE Len(s))

(***************************************************************************)
(* nom combinators, as called by the program.                              *)
(***************************************************************************)
\* u8 changed to yield a zero byte when the buffer is empty
u8_or_zero(i) ==
    IF Len(i) = 0 THEN Ok(<<>>, 0, 0) ELSE Ok(Tail(i), Head(i), 1)

\* nom::number::complete::u8: one byte, or Err::Error(Eof) on an empty buffer
u8(i) ==
    IF Len(i) = 0 THEN Error(ReadErr(i, "Eof"), 0)
    ELSE Ok(Tail(i), Head(i), 1)

\* A u32 is kept as its two 16-bit halves, [hi, lo], since TLC's
\* integers are 32-bit signed.
U32(hi, lo) == [hi |-> hi, lo |-> lo]

\* (res << 8) + byte on a u32, the bits shifted out of the top lost
ShiftIn(r, byte) ==
    U32((r.hi * 256 + (r.lo \div 256)) % 65536, (r.lo % 256) * 256 + byte)

\* the big-endian value of a byte sequence: res = (res << 8) + byte
RECURSIVE BeFold(_, _)
BeFold(s, acc) ==
    IF s = <<>> THEN acc ELSE BeFold(Tail(s), ShiftIn(acc, Head(s)))

\* be_u32 changed to read the four bytes least significant first
le_u32(i) ==
    IF Len(i) < 4 THEN Error(ReadErr(i, "Eof"), 0)
    ELSE Ok(Drop(i, 4), BeFold(<<i[4], i[3], i[2], i[1]>>, U32(0, 0)), 4)

\* nom::number::complete::be_u32: four bytes, or Err::Error(Eof)
be_u32(i) ==
    IF Len(i) < 4 THEN Error(ReadErr(i, "Eof"), 0)
    ELSE Ok(Drop(i, 4), BeFold(Take(i, 4), U32(0, 0)), 4)

\* nom's Compare::compare of a buffer against a tag: the bytes both have
\* must agree, and the buffer must not be shorter than the tag
Compare(i, t) ==
    /\ \A k \in 1..Len(t) : k <= Len(i) => i[k] = t[k]
    /\ Len(i) >= Len(t)

\* nom::bytes::complete::tag: the tag's bytes, or Err::Error(Tag)
tag(t, i) ==
    IF Compare(i, t) THEN Ok(Drop(i, Len(t)), Take(i, Len(t)), Len(t))
    ELSE Error(ReadErr(i, "Tag"), 0)

(***************************************************************************)
(* read_u7, lib.rs 102-130.                                                *)
(***************************************************************************)
\* Continues changed to b > 128
ContinuesAbove(b) == b > 128

\* b >= 128: the continuation bit is set
Continues(b) == b >= 128

\* line 129: (b0 | (b1 << 7) | (b2 << 14) | (b3 << 21)) as u32, in u8
Combine(b0, b1, b2, b3, rest, n, checks) ==
    IF checks /\ (ShlOverflows(7) \/ ShlOverflows(14) \/ ShlOverflows(21))
    THEN Panic(n)
    ELSE Ok(rest,
            BitOr(BitOr(b0, WrappingShl(b1, 7)),
                  BitOr(WrappingShl(b2, 14), WrappingShl(b3, 21))),
            n)

read_u7(i, checks) ==
    LET r0 == u8(i) IN
    IF r0.res # "Ok" THEN Error(r0.err, 0)
    ELSE IF ~Continues(r0.value)
    THEN Combine(r0.value, 0, 0, 0, r0.rest, 1, checks)
    ELSE
    LET b0 == Mask7(r0.value)
        r1 == u8(r0.rest) IN
    IF r1.res # "Ok" THEN Error(r1.err, 1)
    ELSE IF ~Continues(r1.value)
    THEN Combine(b0, r1.value, 0, 0, r1.rest, 2, checks)
    ELSE
    LET b1 == Mask7(r1.value)
        r2 == u8(r1.rest) IN
    IF r2.res # "Ok" THEN Error(r2.err, 2)
    ELSE IF ~Continues(r2.value)
    THEN Combine(b0, b1, r2.value, 0, r2.rest, 3, checks)
    ELSE
    LET b2 == Mask7(r2.value)
        r3 == u8(r2.rest) IN
    IF r3.res # "Ok" THEN Error(r3.err, 3)
    ELSE Combine(b0, b1, b2, r3.value, r3.rest, 4, checks)

(***************************************************************************)
(* size_u7, lib.rs 132-139.                                                *)
(***************************************************************************)
\* size_u7 changed to compare with > instead of >=
size_u7_strict(v) ==
    IF v > 2097152 THEN 4
    ELSE IF v > 16384 THEN 3
    ELSE IF v > 128 THEN 2
    ELSE 1

size_u7(v) ==
    IF v >= 2097152 THEN 4
    ELSE IF v >= 16384 THEN 3
    ELSE IF v >= 128 THEN 2
    ELSE 1

(***************************************************************************)
(* parse_opb, lib.rs 141-171.                                              *)
(***************************************************************************)
\* FormatRejected changed to fmti > 2
FormatRejectedAbove2(fmti) == fmti > 2

\* fmti > 1
FormatRejected(fmti) == fmti > 1

\* FormatOf with the two arms swapped
FormatOfSwapped(fmti) == IF fmti = 0 THEN "Raw" ELSE "Standard"

\* match fmti { 0 => Standard, 1 => Raw }
FormatOf(fmti) == IF fmti = 0 THEN "Standard" ELSE "Raw"

OpbHeader(id, fmt, size, ninst, nchunks) ==
    [id |-> id, fmt |-> fmt, size |-> size,
     num_instruments |-> ninst, num_chunks |-> nchunks]

parse_opb(i) ==
    LET t == tag(TAG_LITERAL, i) IN
    IF t.res # "Ok" THEN Error(t.err, 0)
    ELSE IF t.value # FILE_ID THEN Failure(NotAnOpbFileErr(t.value), 7)
    ELSE
    LET f == u8(t.rest) IN
    IF f.res # "Ok" THEN Error(f.err, 7)
    ELSE IF FormatRejected(f.value) THEN Failure(FormatErr(f.value), 8)
    ELSE
    LET size == be_u32(f.rest) IN
    IF size.res # "Ok" THEN Error(size.err, 8)
    ELSE
    LET ninst == be_u32(size.rest) IN
    IF ninst.res # "Ok" THEN Error(ninst.err, 12)
    ELSE
    LET nchunks == be_u32(ninst.rest) IN
    IF nchunks.res # "Ok" THEN Error(nchunks.err, 16)
    ELSE Ok(nchunks.rest,
            OpbHeader(t.value, FormatOf(f.value), size.value, ninst.value,
                      nchunks.value),
            20)

(***************************************************************************)
(* The minimal-length encoder of the format (the program has none): base   *)
(* 128 groups, least significant first, 0x80 on every byte but the last.   *)
(***************************************************************************)
RECURSIVE encode_u7(_)
encode_u7(v) ==
    IF v < 128 THEN <<v>> ELSE <<(v % 128) + 128>> \o encode_u7(v \div 128)

(***************************************************************************)
(* Inputs.                                                                 *)
(***************************************************************************)
SeqsUpTo(S, n) == UNION {[1..k -> S] : k \in 0..n}

\* 0x00 0x01 0x02 0x05 0x7F 0x80 0x85 0xFF
ByteSamples == {0, 1, 2, 5, 127, 128, 133, 255}
VarintInputs == SeqsUpTo(ByteSamples, MaxVarintLen)

\* 7-bit groups, and the values v < 2^28 made of four of them
GroupSamples == {0, 1, 2, 127}
Values28 ==
    {a + 128 * b + 16384 * c + 2097152 * d :
        a \in GroupSamples, b \in GroupSamples,
        c \in GroupSamples, d \in GroupSamples}
\* larger values, up to 2^31 - 1 (the largest integer TLC has)
TopSamples == GroupSamples \cup {128, 1023}
Values32 ==
    {a + 128 * b + 16384 * c + 2097152 * d :
        a \in GroupSamples, b \in GroupSamples,
        c \in GroupSamples, d \in TopSamples}

\* the magic with at most one byte replaced (0x00, 'X')
AltBytes == {0, 88}
Magics ==
    {FILE_ID} \cup
    {[FILE_ID EXCEPT ![k] = x] : k \in 1..FILE_ID_SIZE, x \in AltBytes}
FormatBytes == {0, 1, 2, 255}
FieldSamples == {<<0, 0, 0, 0>>, <<0, 0, 0, 16>>, <<1, 2, 3, 4>>,
                 <<255, 255, 255, 255>>}
TrailBytes == {0, 79}
HeaderInputs ==
    {Take(m \o <<f>> \o s \o n \o c \o t, k) :
        m \in Magics, f \in FormatBytes, s \in FieldSamples,
        n \in FieldSamples, c \in FieldSamples,
        t \in SeqsUpTo(TrailBytes, MaxTrail), k \in 0..(20 + MaxTrail)}

(***************************************************************************)
(* The state machine: one call of one function per run.                    *)
(***************************************************************************)
NoOut == [res |-> "None"]

Init ==
    /\ overflow_checks \in BOOLEAN
    /\ op = "idle"
    /\ input = <<>>
    /\ val = 0
    /\ out = NoOut

\* read_u7(input)
ReadU7 ==
    /\ op = "idle"
    /\ \E i \in VarintInputs :
        /\ input' = i
        /\ out' = read_u7(i, overflow_checks)
    /\ op' = "read_u7"
    /\ UNCHANGED <<overflow_checks, val>>

\* read_u7(encode(v)), the round trip
RoundTripU7 ==
    /\ op = "idle"
    /\ \E v \in Values28 :
        /\ val' = v
        /\ input' = encode_u7(v)
        /\ out' = read_u7(encode_u7(v), overflow_checks)
    /\ op' = "roundtrip"
    /\ UNCHANGED overflow_checks

\* size_u7(val)
SizeU7 ==
    /\ op = "idle"
    /\ \E v \in Values32 :
        /\ val' = v
        /\ out' = Ok(<<>>, size_u7(v), 0)
    /\ op' = "size_u7"
    /\ UNCHANGED <<overflow_checks, input>>

\* parse_opb(input)
ParseOpb ==
    /\ op = "idle"
    /\ \E i \in HeaderInputs :
        /\ input' = i
        /\ out' = parse_opb(i)
    /\ op' = "parse_opb"
    /\ UNCHANGED <<overflow_checks, val>>

Next == ReadU7 \/ RoundTripU7 \/ SizeU7 \/ ParseOpb

Spec == Init /\ [][Next]_vars

(***************************************************************************)
(* What the specification says of the varint: the bytes a decode takes     *)
(* and the value they stand for.                                           *)
(***************************************************************************)
HasBit(b) == b \div 128 = 1

\* how many of the first three bytes, from the front and without a gap,
\* have bit 0x80 set
LeadingBits(i) ==
    Cardinality({n \in 1..3 : \A m \in 1..n : m <= Len(i) /\ HasBit(i[m])})

\* the bytes a decode of i takes
BytesOf(i) == 1 + LeadingBits(i)

\* i ends before the decode has its last byte
Truncated(i) == Len(i) < BytesOf(i)

\* the payload of byte n (from 0): the low 7 bits, all 8 of the fourth byte
Payload(i, n) == IF n < 3 THEN i[n + 1] % 128 ELSE i[n + 1]

RECURSIVE PayloadSum(_, _)
PayloadSum(i, k) ==
    IF k = 0 THEN 0
    ELSE PayloadSum(i, k - 1) + Payload(i, k - 1) * Pow2(7 * (k - 1))

\* the big-endian u32 of the four bytes of i from position p
BeAt(i, p) == U32(i[p] * 256 + i[p + 1], i[p + 2] * 256 + i[p + 3])

HasMagic(i) == Len(i) >= 7 /\ \A k \in 1..7 : i[k] = FILE_ID[k]

(***************************************************************************)
(* The claims.                                                             *)
(***************************************************************************)

\* C1: round trip: read_u7 of the minimal-length encoding of v < 2^28
\* returns exactly v and an empty remaining buffer.
C1_RoundTrip ==
    op = "roundtrip" =>
        /\ out.res = "Ok"
        /\ out.value = val
        /\ out.rest = <<>>

\* C2: a buffer of at least 7 bytes whose first 7 bytes differ from the
\* magic makes parse_opb fail with NotAnOpbFile carrying those 7 bytes.
C2_NotAnOpbFile ==
    (op = "parse_opb" /\ Len(input) >= 7 /\ ~HasMagic(input)) =>
        /\ out.res = "Failure"
        /\ out.err = NotAnOpbFileErr(SubSeq(input, 1, 7))

\* C3: with the right magic and an 8th byte b that is not 0 or 1, parse_opb
\* fails with Format(b), whatever follows.
C3_UnsupportedFormat ==
    (op = "parse_opb" /\ HasMagic(input) /\ Len(input) >= 8
        /\ input[8] \notin {0, 1}) =>
        /\ out.res = "Failure"
        /\ out.err = FormatErr(input[8])

C3_Witness ==
    /\ op = "parse_opb"
    /\ HasMagic(input)
    /\ Len(input) > 8
    /\ input[8] = 2
    /\ out.res = "Failure"
    /\ out.err = FormatErr(2)

\* C4: at least 20 bytes with the right magic and format byte 0 or 1:
\* parse_opb succeeds, fmt is Standard for 0 and Raw for 1, id is the magic,
\* the three fields are the big-endian u32 of bytes 8..11, 12..15, 16..19
\* (positions 9, 13, 17 counted from 1), and the rest starts at offset 20.
C4_HeaderFields ==
    (op = "parse_opb" /\ Len(input) >= 20 /\ HasMagic(input)
        /\ input[8] \in {0, 1}) =>
        /\ out.res = "Ok"
        /\ out.value.fmt = (IF input[8] = 0 THEN "Standard" ELSE "Raw")
        /\ out.value.id = FILE_ID
        /\ out.value.size = BeAt(input, 9)
        /\ out.value.num_instruments = BeAt(input, 13)
        /\ out.value.num_chunks = BeAt(input, 17)
        /\ out.rest = SubSeq(input, 21, Len(input))

C4_Witness ==
    /\ op = "parse_opb"
    /\ Len(input) > 20
    /\ out.res = "Ok"
    /\ out.value.fmt = "Raw"
    /\ out.value.size = U32(0, 16)
    /\ out.value.num_instruments = U32(258, 772)
    /\ out.value.num_chunks = U32(65535, 65535)
    /\ out.rest = <<79>>

\* C5, as stated: parse_opb on any buffer of fewer than 20 bytes, and
\* read_u7 on any buffer that ends on a continuation bit, return the Read
\* error (OpbError::Read, whatever its nom kind) and no other error.
C5_TruncatedOriginal ==
    /\ (op = "parse_opb" /\ Len(input) < 20) =>
        /\ out.res = "Error"
        /\ out.err.variant = "Read"
    /\ (op = "read_u7" /\ Truncated(input)) =>
        /\ out.res = "Error"
        /\ out.err.variant = "Read"

\* the bytes left when parse_opb, past the magic, runs out of input
LeftAtEof(i) ==
    IF Len(i) = 7 THEN <<>>
    ELSE SubSeq(i, 9 + 4 * ((Len(i) - 8) \div 4), Len(i))

\* C5, amended: parse_opb on a buffer of fewer than 20 bytes never succeeds
\* or panics; its error is the end-of-input Read error when the buffer has
\* the whole magic and its format byte, if there, is 0 or 1; it is the Read
\* error of kind Tag when the magic is cut short or differs, and Format when
\* the format byte is not 0 or 1.  read_u7 on a buffer that ends on a
\* continuation bit returns the end-of-input Read error.
C5_Truncated ==
    /\ (op = "parse_opb" /\ Len(input) < 20) =>
        /\ out.res \in {"Error", "Failure"}
        /\ (HasMagic(input) /\ (Len(input) >= 8 => input[8] \in {0, 1})) =>
            /\ out.res = "Error"
            /\ out.err = ReadErr(LeftAtEof(input), "Eof")
        /\ ~HasMagic(input) =>
            /\ out.res = "Error"
            /\ out.err = ReadErr(input, "Tag")
        /\ (HasMagic(input) /\ Len(input) >= 8 /\ input[8] \notin {0, 1}) =>
            /\ out.res = "Failure"
            /\ out.err = FormatErr(input[8])
    /\ (op = "read_u7" /\ Truncated(input)) =>
        /\ out.res = "Error"
        /\ out.err = ReadErr(<<>>, "Eof")

C5_Witness ==
    /\ op = "parse_opb"
    /\ Len(input) = 14
    /\ HasMagic(input)
    /\ out.res = "Error"
    /\ out.err = ReadErr(<<1, 2>>, "Eof")

\* C6: whenever parse_opb succeeds, the first 7 bytes are the magic, the
\* 8th byte is 0 or 1, and fmt is Standard or Raw accordingly.
C6_AcceptanceSound ==
    (op = "parse_opb" /\ out.res = "Ok") =>
        /\ HasMagic(input)
        /\ Len(input) >= 8
        /\ input[8] \in {0, 1}
        /\ input[8] = 0 => out.value.fmt = "Standard"
        /\ input[8] = 1 => out.value.fmt = "Raw"

C6_Witness ==
    /\ op = "parse_opb"
    /\ out.res = "Ok"
    /\ input[8] = 0
    /\ out.value.fmt = "Standard"
    /\ out.value.id = FILE_ID

\* C7: the value read_u7 returns is the sum of the payloads of the bytes
\* read, byte n shifted left by 7n: [0x85, 0x02] decodes to 261.
C7_DecodedValue ==
    (op = "read_u7" /\ ~Truncated(input)) =>
        /\ out.res = "Ok"
        /\ out.value = PayloadSum(input, BytesOf(input))

\* C8: on success read_u7 has taken k bytes, 1 <= k <= 4, k being 1 plus
\* the leading bytes among the first three with bit 0x80; the rest is the
\* input without its first k bytes, and no byte past the k-th changes the
\* result.
C8_BytesConsumed ==
    (op = "read_u7" /\ out.res = "Ok") =>
        LET k == BytesOf(input) IN
        /\ k \in 1..4
        /\ out.read = k
        /\ out.rest = SubSeq(input, k + 1, Len(input))
        /\ \A t \in SeqsUpTo(ByteSamples, 1) :
            LET r == read_u7(SubSeq(input, 1, k) \o t, overflow_checks) IN
            /\ r.res = "Ok"
            /\ r.value = out.value
            /\ r.rest = t

C8_Witness ==
    /\ op = "read_u7"
    /\ out.res = "Ok"
    /\ Len(input) = 5
    /\ input[4] >= 128
    /\ out.read = 4
    /\ out.rest = <<input[5]>>

\* C9: with bit 0x80 set on bytes 0, 1 and 2 the result is
\* (b0 & 0x7F) + ((b1 & 0x7F) << 7) + ((b2 & 0x7F) << 14) + (b3 << 21),
\* b3 being all 8 bits: [0x80, 0x80, 0x80, 0x80] decodes to 2^28.
C9_FourthByteUnmasked ==
    (op = "read_u7" /\ Len(input) >= 4 /\ LeadingBits(input) = 3) =>
        /\ out.res = "Ok"
        /\ out.value = (input[1] % 128) + (input[2] % 128) * 128
                       + (input[3] % 128) * 16384 + input[4] * 2097152

\* C10: size_u7(v) is 1 below 2^7, 2 below 2^14, 3 below 2^21 and 4 from
\* 2^21 on; and it is the number of bytes read_u7 takes from the
\* minimal-length encoding of v < 2^28, which it takes whole.
C10_SizeAgrees ==
    /\ op = "size_u7" =>
        out.value = (IF val < Pow2(7) THEN 1
                     ELSE IF val < Pow2(14) THEN 2
                     ELSE IF val < Pow2(21) THEN 3
                     ELSE 4)
    /\ op = "roundtrip" =>
        /\ out.res \in {"Ok", "Panic"}
        /\ out.read = size_u7(val)
        /\ out.read = Len(input)
        /\ out.res = "Ok" => out.rest = <<>>

C10_Witness ==
    /\ op = "roundtrip"
    /\ val >= 2097152
    /\ out.res = "Ok"
    /\ out.read = 4
    /\ size_u7(val) = 4

====
